---------------------------- MODULE Spec2Model ----------------------------
(***************************************************************************)
(* The incremental ELO rating engine of gaffers-notebook and the store it  *)
(* runs against: EloTracker (src/src/analysis/elo.py), run_incremental_elo *)
(* and the Supabase tables raw_matches, elo_ratings and elo_match_history  *)
(* (src/src/database.py).                                                  *)
(*                                                                         *)
(* Numbers.  Python floats are modelled in fixed point.  A rating is an    *)
(* integer number of rating units, RatingScale units to the point, chosen  *)
(* so that K * g_mult * (actual - expected) is an exact integer.  A        *)
(* probability is an integer number of 1/PScale.  round(x, 2) rounds a     *)
(* rating to the nearest hundredth of a point (half to even), so a rating  *)
(* that went through the store differs from the engine's running value.    *)
(* 10 ** (x / 400) is evaluated with the exponent rounded to 1/40.         *)
(*                                                                         *)
(* Dates.  A date of the feed ('YYYY-MM-DD') is a day number 1..MaxDate;   *)
(* pd.to_datetime turns it into a timestamp (hours), strftime('%Y-%m-%d')  *)
(* turns a timestamp back into its day.  Python's None is the empty        *)
(* sequence <<>> and a present value v is <<v>> wherever a value may be    *)
(* absent.                                                                 *)
(***************************************************************************)
EXTENDS Integers, Sequences, FiniteSets, TLC

(***************************************************************************)
(* Bounds of the model.                                                    *)
(***************************************************************************)
\* Rows the scraper may put into raw_matches.
MaxFeed == 3
\* Match days.
MaxDate == 2
\* Store or feed calls that may fail over a whole behaviour.
MaxFailures == 1
\* Largest goal difference _get_margin_multiplier is applied to.
MaxGoalDiff == 5
\* Rows per upsert of upload_elo_match_history: 500 in the source, scaled
\* down so that a batch of the model spans more than one chunk.
chunk_size == 2

Teams == {"A", "B", "C"}
\* (home_team, away_team, fthg, ftag) of the rows the scraper may upload, on
\* any day: a home win and an away win, with a team in common.
Fixtures == {<<"A", "B", 2, 0>>, <<"C", "A", 0, 1>>}
SEASON == "2526"
LEAGUE == "serie_a"
Dates == 1..MaxDate

(***************************************************************************)
(* EloTracker.__init__ defaults.                                           *)
(***************************************************************************)
k_stable == 20
k_volatile == 40
volatile_limit == 30
home_adv == 40
base == 1500

\* Probabilities are counted in 1/PScale.
PScale == 10 * 1000
\* Rating units per rating point.
RatingScale == 8 * PScale
\* Rows per page of get_raw_matches.
page_size == 1000

(***************************************************************************)
(* Helpers: dicts, optional values, rounding.                              *)
(***************************************************************************)
None == <<>>
Some(v) == <<v>>

\* dict.get(k, default)
DictGet(d, k, default) == IF k \in DOMAIN d THEN d[k] ELSE default

\* d[k] = v
DictPut(d, k, v) == [x \in DOMAIN d \cup {k} |-> IF x = k THEN v ELSE d[x]]

\* row.get(k): the value under column k, None when the row has no such column.
RowGet(row, k) == IF k \in DOMAIN row THEN Some(row[k]) ELSE None

\* Truthiness of an optional string: None and '' are falsy.
Truthy(opt) == opt # None /\ opt[1] # ""

\* a or b, on optional values
Or(a, b) == IF Truthy(a) THEN a ELSE b

\* x rounded to the nearest multiple of u, half to even (Python's round).
RoundTo(x, u) ==
    LET q == x \div u
        r == x - q * u
    IN  IF 2 * r < u THEN q * u
        ELSE IF 2 * r > u THEN (q + 1) * u
        ELSE IF q % 2 = 0 THEN q * u ELSE (q + 1) * u

\* round(rating, 2)
Round2(x) == RoundTo(x, RatingScale \div 100)

\* round(probability, 3)
Round3(p) == RoundTo(p, PScale \div 1000)

\* pd.to_datetime(date): the timestamp, in hours, of a day
to_datetime(d) == d * 24

\* Timestamp.strftime('%Y-%m-%d'): the day of a timestamp
strftime(ts) == ts \div 24

(***************************************************************************)
(* EloTracker: the pure part.  A tracker is a record                       *)
(*   [ratings, match_counts, team_leagues : dicts by team, history : Seq]. *)
(***************************************************************************)
NewTracker ==
    [ratings |-> <<>>, match_counts |-> <<>>, team_leagues |-> <<>>, history |-> <<>>]

\* A faulty lookup that rates an unseen team at zero.
get_rating_zero(tr, team) == DictGet(tr.ratings, team, 0)

\* get_rating: self.ratings.get(team, self.base), a read of the dictionary
get_rating(tr, team) == DictGet(tr.ratings, team, base * RatingScale)

\* A faulty K-factor whose comparison is "at most" instead of "less than".
get_k_factor_le(tr, team) ==
    LET count == DictGet(tr.match_counts, team, 0)
    IN  IF count <= volatile_limit THEN k_volatile ELSE k_stable

get_k_factor(tr, team) ==
    LET count == DictGet(tr.match_counts, team, 0)
    IN  IF count < volatile_limit THEN k_volatile ELSE k_stable

\* 1000 * 10 ** (r / 40) for r in 0..39
Pow10Table ==
    <<1000, 1059, 1122, 1189, 1259, 1334, 1413, 1496, 1585, 1679,
      1778, 1884, 1995, 2113, 2239, 2371, 2512, 2661, 2818, 2985,
      3162, 3350, 3548, 3758, 3981, 4217, 4467, 4732, 5012, 5309,
      5623, 5957, 6310, 6683, 7079, 7499, 7943, 8414, 8913, 9441>>

RECURSIVE TenTo(_)
TenTo(n) == IF n = 0 THEN 1 ELSE 10 * TenTo(n - 1)

\* A faulty expected score: team A is always certain to win.
certain_score(rating_a, rating_b) == PScale

\* 1 / (1 + 10 ** ((rating_b - rating_a) / 400)), in 1/PScale.  The exponent
\* is rounded to a multiple of 1/40 (ten rating points); beyond 2000 points
\* of difference the result saturates at 0 or 1.
expected_score(rating_a, rating_b) ==
    LET step == 10 * RatingScale
        e40  == RoundTo(rating_b - rating_a, step) \div step
        q    == e40 \div 40
        r    == e40 % 40
    IN  IF q >= 5 THEN 0
        ELSE IF q < -5 THEN PScale
        ELSE LET pow == IF q >= 0 THEN Pow10Table[r + 1] * TenTo(q)
                        ELSE Pow10Table[r + 1] \div TenTo(-q)
             IN  (PScale * 1000) \div (1000 + pow)

\* A faulty margin multiplier that ignores the goal difference.
flat_multiplier(goal_diff) == 8

\* _get_margin_multiplier, in eighths
get_margin_multiplier(goal_diff) ==
    IF goal_diff <= 0 THEN 8
    ELSE IF goal_diff = 1 THEN 8
    ELSE IF goal_diff = 2 THEN 12
    ELSE 11 + goal_diff

\* A faulty process_match that counts the match for the home team only.
count_home_only(tr, home_team, away_team, fthg, ftag, date, season, league) ==
    [tr EXCEPT !.match_counts =
        DictPut(@, home_team, DictGet(@, home_team, 0) + 1)]

\* A faulty process_match that counts the match and records nothing.
no_record(tr, home_team, away_team, fthg, ftag, date, season, league) ==
    [tr EXCEPT !.match_counts =
        DictPut(DictPut(@, home_team, DictGet(@, home_team, 0) + 1),
                away_team, DictGet(@, away_team, 0) + 1)]

\* A faulty process_match that stores ratings for the two teams and counts
\* the match for neither.
rate_without_count(tr, home_team, away_team, fthg, ftag, date, season, league) ==
    [tr EXCEPT !.ratings =
        DictPut(DictPut(@, home_team, get_rating(tr, home_team)),
                away_team, get_rating(tr, away_team))]

\* A faulty process_match that, besides counting the match, puts every team
\* other than its two back at the base rating.
reset_others(tr, home_team, away_team, fthg, ftag, date, season, league) ==
    [tr EXCEPT
       !.ratings = [t \in DOMAIN @ \cup {home_team, away_team} |->
                      IF t = home_team
                      THEN get_rating(tr, t) + (fthg - ftag) * RatingScale
                      ELSE IF t = away_team
                      THEN get_rating(tr, t) + (ftag - fthg) * RatingScale
                      ELSE base * RatingScale],
       !.match_counts =
           DictPut(DictPut(@, home_team, DictGet(@, home_team, 0) + 1),
                   away_team, DictGet(@, away_team, 0) + 1),
       !.team_leagues = DictPut(DictPut(@, home_team, league), away_team, league),
       !.history = Append(@, [Date |-> date, HomeTeam |-> home_team,
                              AwayTeam |-> away_team])]

\* A faulty process_match that moves both ratings with the home team's K.
home_k_for_both(tr, home_team, away_team, fthg, ftag, date, season, league) ==
    LET r_home == get_rating(tr, home_team)
        r_away == get_rating(tr, away_team)
        actual_home == IF fthg > ftag THEN PScale
                       ELSE IF fthg = ftag THEN PScale \div 2 ELSE 0
        goal_diff == IF fthg > ftag THEN fthg - ftag ELSE ftag - fthg
        delta == get_k_factor(tr, home_team) * get_margin_multiplier(goal_diff)
                   * (actual_home
                        - expected_score(r_home + home_adv * RatingScale, r_away))
    IN  [tr EXCEPT
           !.ratings = DictPut(DictPut(@, home_team, r_home + delta),
                               away_team, r_away - delta),
           !.match_counts =
               DictPut(DictPut(@, home_team, DictGet(@, home_team, 0) + 1),
                       away_team, DictGet(@, away_team, 0) + 1)]

process_match(tr, home_team, away_team, fthg, ftag, date, season, league) ==
    LET r_home == get_rating(tr, home_team)
        r_away == get_rating(tr, away_team)
        k_home == get_k_factor(tr, home_team)
        k_away == get_k_factor(tr, away_team)
        actual_home == IF fthg > ftag THEN PScale
                       ELSE IF fthg = ftag THEN PScale \div 2 ELSE 0
        goal_diff == IF fthg > ftag THEN fthg - ftag
                     ELSE IF fthg = ftag THEN 0 ELSE ftag - fthg
        expected_home == expected_score(r_home + home_adv * RatingScale, r_away)
        g_mult == get_margin_multiplier(goal_diff)
        delta_home == k_home * g_mult * (actual_home - expected_home)
        delta_away == k_away * g_mult
                        * ((PScale - actual_home) - (PScale - expected_home))
        new_home == r_home + delta_home
        new_away == r_away + delta_away
        ratings1 == DictPut(tr.ratings, home_team, new_home)
        ratings2 == DictPut(ratings1, away_team, new_away)
        counts1 == DictPut(tr.match_counts, home_team,
                           DictGet(tr.match_counts, home_team, 0) + 1)
        counts2 == DictPut(counts1, away_team,
                           DictGet(counts1, away_team, 0) + 1)
        leagues1 == DictPut(tr.team_leagues, home_team, league)
        leagues2 == DictPut(leagues1, away_team, league)
    IN  [ratings |-> ratings2,
         match_counts |-> counts2,
         team_leagues |-> leagues2,
         history |-> Append(tr.history,
            [Date |-> date, Season |-> season, League |-> league,
             HomeTeam |-> home_team, AwayTeam |-> away_team,
             FTHG |-> fthg, FTAG |-> ftag,
             HomeRating_Before |-> Round2(r_home),
             AwayRating_Before |-> Round2(r_away),
             HomeRating_After |-> Round2(new_home),
             AwayRating_After |-> Round2(new_away),
             Expected_Home_Win |-> Round3(expected_home),
             Rating_Change_Home |-> Round2(delta_home),
             Rating_Change_Away |-> Round2(delta_away)])]

(***************************************************************************)
(* EloTracker: export, load, batch fold.                                   *)
(***************************************************************************)
\* get_history_df: the accumulator as it stands
get_history_df(tr) == tr.history

\* A faulty export that holds the teams of the folded matches only.
export_played_only(tr) ==
    LET played == UNION {{tr.history[i].HomeTeam, tr.history[i].AwayTeam} :
                           i \in 1..Len(tr.history)}
    IN  [k \in DOMAIN tr.ratings \cap played |->
            [Team |-> k, Elo |-> Round2(tr.ratings[k]),
             Matches |-> DictGet(tr.match_counts, k, 0),
             league |-> RowGet(tr.team_leagues, k)]]

\* A faulty export that leaves the match counts out (0 for every team).
export_without_counts(tr) ==
    [k \in DOMAIN tr.ratings |->
        [Team |-> k, Elo |-> Round2(tr.ratings[k]), Matches |-> 0,
         league |-> RowGet(tr.team_leagues, k)]]

\* get_current_ratings_df: one row per team with a stored rating.  The rows'
\* order and Rank are not modelled: upload_elo_ratings reads neither.
get_current_ratings_df(tr) ==
    [k \in DOMAIN tr.ratings |->
        [Team |-> k,
         Elo |-> Round2(tr.ratings[k]),
         Matches |-> DictGet(tr.match_counts, k, 0),
         league |-> RowGet(tr.team_leagues, k)]]

\* A faulty load that ignores the stored ratings.
load_nothing(tr, ratings_df) == tr

\* A faulty load that takes the ratings and leaves the match counts out.
load_ratings_only(tr, ratings_df) ==
    [tr EXCEPT !.ratings = [t \in DOMAIN tr.ratings \cup DOMAIN ratings_df |->
                              IF t \in DOMAIN ratings_df THEN ratings_df[t].elo_rating
                              ELSE tr.ratings[t]]]

\* load_from_db: ratings_df is the elo_ratings table, keyed by team
load_from_db(tr, ratings_df) ==
    LET loaded == DOMAIN ratings_df
        tagged == {t \in loaded : Truthy(ratings_df[t].league)}
    IN  [tr EXCEPT
            !.ratings = [t \in DOMAIN tr.ratings \cup loaded |->
                IF t \in loaded THEN ratings_df[t].elo_rating ELSE tr.ratings[t]],
            !.match_counts = [t \in DOMAIN tr.match_counts \cup loaded |->
                IF t \in loaded THEN ratings_df[t].matches_played
                ELSE tr.match_counts[t]],
            !.team_leagues = [t \in DOMAIN tr.team_leagues \cup tagged |->
                IF t \in tagged THEN ratings_df[t].league[1]
                ELSE tr.team_leagues[t]]]

\* EloTracker.from_db, given what get_elo_ratings returned
from_db(ratings_df) ==
    IF Cardinality(DOMAIN ratings_df) > 0
    THEN load_from_db(NewTracker, ratings_df)
    ELSE NewTracker

\* matches_df.rename(columns={old: new}) on one row
Rename(row, old, new) ==
    [k \in (DOMAIN row \ {old}) \cup {new} |-> IF k = new THEN row[old] ELSE row[k]]

\* The head of process_new_matches: 'date' becomes 'Date', a timestamp.  (The
\* feed's dates are strings, so the to_datetime branch is always taken.)
Normalise(matches_df) ==
    LET renamed == IF "date" \in DOMAIN matches_df[1]
                   THEN [i \in 1..Len(matches_df) |-> Rename(matches_df[i], "date", "Date")]
                   ELSE matches_df
    IN  [i \in 1..Len(renamed) |->
            [renamed[i] EXCEPT !.Date = to_datetime(renamed[i].Date)]]

\* matches_df.sort_values('Date'): pandas sorts with quicksort, which is not
\* stable, so every arrangement in non-decreasing date order is an outcome.
sort_values(df) ==
    LET n == Len(df)
        sorted == {p \in Permutations(1..n) :
                     \A i \in 1..(n - 1) : df[p[i]].Date <= df[p[i + 1]].Date}
    IN  {[i \in 1..n |-> df[p[i]]] : p \in sorted}

\* A faulty row reader that knows the raw goal columns only and takes a
\* goal it does not find as 0.
process_row_raw_goals(tr, row) ==
    process_match(tr,
        Or(RowGet(row, "home_team"), RowGet(row, "HomeTeam"))[1],
        Or(RowGet(row, "away_team"), RowGet(row, "AwayTeam"))[1],
        DictGet(row, "fthg", 0), DictGet(row, "ftag", 0), row.Date,
        Or(RowGet(row, "season"), RowGet(row, "Season"))[1],
        Or(RowGet(row, "league"), RowGet(row, "League"))[1])

\* One iteration of the loop of process_new_matches.
process_row(tr, row) ==
    LET fthg == IF RowGet(row, "fthg") # None THEN RowGet(row, "fthg")
                ELSE RowGet(row, "FTHG")
        ftag == IF RowGet(row, "ftag") # None THEN RowGet(row, "ftag")
                ELSE RowGet(row, "FTAG")
    IN  process_match(tr,
            Or(RowGet(row, "home_team"), RowGet(row, "HomeTeam"))[1],
            Or(RowGet(row, "away_team"), RowGet(row, "AwayTeam"))[1],
            fthg[1], ftag[1], row.Date,
            Or(RowGet(row, "season"), RowGet(row, "Season"))[1],
            Or(RowGet(row, "league"), RowGet(row, "League"))[1])

\* The loop of process_new_matches: each iteration works on the tracker the
\* iteration before it left (bound as a value t before the loop goes on).
RECURSIVE process_rows(_, _)
process_rows(tr, rows) ==
    IF rows = <<>> THEN tr
    ELSE CHOOSE x \in {process_rows(t, Tail(rows)) :
                          t \in {process_row(tr, Head(rows))}} : TRUE

\* process_league_season: the trackers it may leave, one per arrangement
\* the sort may produce.  df holds the columns Date, HomeTeam, AwayTeam,
\* FTHG, FTAG of a season file.
process_league_season(tr, df, season, league_key) ==
    LET dated == [i \in 1..Len(df) |-> [df[i] EXCEPT !.Date = to_datetime(@)]]
        step(t, row) == process_match(t, row.HomeTeam, row.AwayTeam,
                                      row.FTHG, row.FTAG, row.Date, season, league_key)
        fold[n \in 0..Len(df)] ==
            [s \in sort_values(dated) |->
                IF n = 0 THEN tr
                ELSE CHOOSE x \in {step(t, s[n]) : t \in {fold[n - 1][s]}} : TRUE]
    IN  {fold[Len(df)][s] : s \in sort_values(dated)}

\* process_new_matches: the possible outcomes [tracker, ret], one per
\* arrangement the sort may produce.
process_new_matches(tr, matches_df) ==
    IF Len(matches_df) = 0
    THEN {[tracker |-> tr, ret |-> 0]}
    ELSE {[tracker |-> process_rows(tr, s), ret |-> Len(matches_df)] :
            s \in sort_values(Normalise(matches_df))}

(***************************************************************************)
(* The store (src/src/database.py).  raw_matches is a set of rows,         *)
(* elo_match_history a sequence in insertion order, elo_ratings is keyed   *)
(* by team.                                                                *)
(***************************************************************************)
\* on_conflict="league, season, date, home_team, away_team"
MatchKey(r) == <<r.league, r.season, r.date, r.home_team, r.away_team>>

\* A faulty upsert of the ratings that writes nothing.
KeepRatings(table, recs) == table

\* One row of an upsert: overwrite the row of the same key, or insert.
UpsertOne(table, rec) ==
    IF \E i \in 1..Len(table) : MatchKey(table[i]) = MatchKey(rec)
    THEN [i \in 1..Len(table) |->
            IF MatchKey(table[i]) = MatchKey(rec) THEN rec ELSE table[i]]
    ELSE Append(table, rec)

RECURSIVE Upsert(_, _)
Upsert(table, recs) ==
    IF recs = <<>> THEN table
    ELSE Upsert(UpsertOne(table, Head(recs)), Tail(recs))

\* The records upload_elo_ratings builds and upserts on_conflict="team".
RatingRecords(ratings_df) ==
    [t \in DOMAIN ratings_df |->
        [team |-> ratings_df[t].Team,
         league |-> ratings_df[t].league,
         elo_rating |-> ratings_df[t].Elo,
         matches_played |-> ratings_df[t].Matches,
         last_match_date |-> None]]

UpsertRatings(table, recs) ==
    [t \in DOMAIN table \cup DOMAIN recs |->
        IF t \in DOMAIN recs THEN recs[t] ELSE table[t]]

\* One record of upload_elo_match_history.
HistoryRecord(row) ==
    [date |-> strftime(row.Date),
     season |-> row.Season,
     league |-> row.League,
     home_team |-> row.HomeTeam,
     away_team |-> row.AwayTeam,
     fthg |-> row.FTHG,
     ftag |-> row.FTAG,
     result |-> IF row.FTHG > row.FTAG THEN "H"
                ELSE IF row.FTAG > row.FTHG THEN "A" ELSE "D",
     home_elo_before |-> row.HomeRating_Before,
     away_elo_before |-> row.AwayRating_Before,
     home_elo_after |-> row.HomeRating_After,
     away_elo_after |-> row.AwayRating_After,
     elo_change_home |-> row.Rating_Change_Home,
     elo_change_away |-> row.Rating_Change_Away,
     expected_home_win |-> row.Expected_Home_Win]

HistoryRecords(history_df) ==
    [i \in 1..Len(history_df) |-> HistoryRecord(history_df[i])]

\* records[i:i + chunk_size], i counted from 0
Chunk(recs, i) ==
    SubSeq(recs, i + 1, IF i + chunk_size < Len(recs) THEN i + chunk_size ELSE Len(recs))

\* A faulty watermark query that never finds a date.
no_watermark(history) == None

\* get_last_processed_match_date: order("date", desc=True).limit(1)
get_last_processed_match_date(history) ==
    IF Len(history) = 0 THEN None
    ELSE LET dates == {history[i].date : i \in 1..Len(history)}
         IN  Some(CHOOSE d \in dates : \A e \in dates : e <= d)

\* upload_raw_matches, one row: on_conflict is the match key
UpsertRaw(table, rec) ==
    {r \in table : MatchKey(r) # MatchKey(rec)} \cup {rec}

RECURSIVE SeqOf(_)
SeqOf(rows) ==
    IF rows = {} THEN <<>>
    ELSE LET r == CHOOSE r \in rows : TRUE IN <<r>> \o SeqOf(rows \ {r})

\* .order("date"): rows by date.  The database leaves the order of the rows
\* of one date open; sort_values rearranges them freely anyway.
RECURSIVE OrderByDate(_, _)
OrderByDate(rows, d) ==
    IF d > MaxDate THEN <<>>
    ELSE SeqOf({r \in rows : r.date = d}) \o OrderByDate(rows, d + 1)

\* One pass of the paging loop of get_raw_matches, from row `offset` on.
RECURSIVE Pages(_, _)
Pages(query, offset) ==
    LET last == IF offset + page_size < Len(query) THEN offset + page_size
                ELSE Len(query)
        data == SubSeq(query, offset + 1, last)
    IN  IF Len(data) = 0 THEN <<>>
        ELSE IF Len(data) < page_size THEN data
        ELSE data \o Pages(query, offset + page_size)

\* A faulty fetch that ignores the watermark.
get_raw_matches_all(table, after_date) == Pages(OrderByDate(table, 1), 0)

\* A faulty fetch whose filter is "on or after" (gte instead of gt).
get_raw_matches_gte(table, after_date) ==
    LET filtered == IF after_date # None
                    THEN {r \in table : r.date >= after_date[1]}
                    ELSE table
    IN  Pages(OrderByDate(filtered, 1), 0)

\* get_raw_matches(after_date=after_date)
get_raw_matches(table, after_date) ==
    LET filtered == IF after_date # None
                    THEN {r \in table : r.date > after_date[1]}
                    ELSE table
    IN  Pages(OrderByDate(filtered, 1), 0)

\* A faulty guard under which every run goes on to persist.
AlwaysPersist(tr) == TRUE

\* run_incremental_elo: "if len(tracker.history) > 0"
HasNewRecords(tr) == Len(tr.history) > 0

\* run_incremental_elo up to its first write: from_db, the watermark, the
\* fetch and the fold, all three reads succeeding.  One outcome per
\* arrangement the sort may produce.
Folds(ratings, history, feed) ==
    LET tr0 == from_db(ratings)
        ld  == get_last_processed_match_date(history)
        nm  == get_raw_matches(feed, ld)
    IN  {[tracker |-> o.tracker, ret |-> o.ret, last_date |-> ld, new_matches |-> nm] :
            o \in process_new_matches(tr0, nm)}

\* What a run of run_incremental_elo whose calls all succeed leaves in the
\* store, given the tables it starts from: one outcome per arrangement the
\* sort may produce.
RunOutcomes(ratings, history, feed) ==
    {IF HasNewRecords(o.tracker)
     THEN [ratings |-> UpsertRatings(ratings,
                          RatingRecords(get_current_ratings_df(o.tracker))),
           history |-> Upsert(history, HistoryRecords(get_history_df(o.tracker)))]
     ELSE [ratings |-> ratings, history |-> history] :
        o \in Folds(ratings, history, feed)}

(***************************************************************************)
(* State.                                                                  *)
(*   raw_matches, elo_ratings, elo_match_history : the three tables        *)
(*   pc          : where run_incremental_elo stands ("idle" between runs)  *)
(*   tracker, last_date, new_matches, ret : locals of the latest run       *)
(*   records, offset, hist_ret : locals of upload_elo_match_history        *)
(*   ratings_ret : what upload_elo_ratings returned                        *)
(*   report      : the last line the run printed, "exception" if it raised *)
(*   failures    : reads and writes (upserts) of the runs that failed so   *)
(*                 far                                                     *)
(*   cur         : the latest run: the tables as it found them, the store  *)
(*                 calls it made, whether it found the feed as the run     *)
(*                 before it did (again) and how that run ended (after)    *)
(*   prev        : the run before the latest, kept when a write of it      *)
(*                 failed (NoRun otherwise)                                *)
(*   reflected   : days of the matches folded into the stored ratings      *)
(*   runs, overlapped : the two concurrent executions, and whether one     *)
(*                 started while the other was running                     *)
(*   engine      : an EloTracker instance driven call by call              *)
(*   last        : the last call made on it: the method, the instance      *)
(*                 before the call, the arguments (names, numbers, frame)  *)
(*                 and the value returned                                  *)
(*   ncalls      : process_match calls made on it so far                   *)
(***************************************************************************)
VARIABLES raw_matches, elo_ratings, elo_match_history,
          pc, tracker, last_date, new_matches, ret,
          records, offset, hist_ret, ratings_ret, report,
          failures, cur, prev, reflected,
          runs, overlapped,
          engine, last, ncalls

tables == <<raw_matches, elo_ratings, elo_match_history>>
locals == <<tracker, last_date, new_matches, ret, records, offset, hist_ret, ratings_ret>>
\* The state of the single-writer runs, besides the tables.
seqvars == <<pc, locals, report, failures, cur, prev, reflected>>
\* The state of the two concurrent runs, besides the tables.
concvars == <<runs, overlapped>>
\* The state of an engine instance driven call by call.
engvars == <<engine, last, ncalls>>
\* What the single-writer runs leave alone.
others == <<concvars, engvars>>
vars == <<raw_matches, elo_ratings, elo_match_history,
          pc, tracker, last_date, new_matches, ret,
          records, offset, hist_ret, ratings_ret, report,
          failures, cur, prev, reflected,
          runs, overlapped,
          engine, last, ncalls>>

\* The row of raw_matches of a fixture played on day d.
FeedRow(d, fx) ==
    [league |-> LEAGUE, season |-> SEASON, date |-> d,
     home_team |-> fx[1], away_team |-> fx[2], fthg |-> fx[3], ftag |-> fx[4]]

\* No call made yet on the engine instance.
NoCall == [op |-> "none", before |-> NewTracker, names |-> <<>>, nums |-> <<>>,
           df |-> <<>>, result |-> <<>>]

\* The two concurrent executions of run_incremental_elo.
Procs == {1, 2}

\* An execution that has not started: its position and its locals.
IdleRun == [pc |-> "idle", tracker |-> NewTracker, last_date |-> None,
            new_matches |-> <<>>, records |-> <<>>, offset |-> 0, feed |-> {}]

NoRun == [ran |-> FALSE, again |-> FALSE, after |-> "none", ratings |-> <<>>,
          history |-> <<>>, feed |-> {}, calls |-> <<>>]

Call(op, ok) == [op |-> op, ok |-> ok]

\* The reads of a run, in the order run_incremental_elo makes them.
Reads == <<"get_elo_ratings", "get_last_processed_match_date", "get_raw_matches">>

\* The writes of a run.
Writes == {"upsert_elo_match_history", "upsert_elo_ratings"}

\* A call of the run failed.
Failed(run) == \E i \in 1..Len(run.calls) : ~run.calls[i].ok

\* A write of the run failed.
PersistFailed(run) ==
    \E i \in 1..Len(run.calls) : ~run.calls[i].ok /\ run.calls[i].op \in Writes

\* The run raised: a read of it failed (the failures of its writes are
\* caught in upload_elo_match_history and upload_elo_ratings).
Raised(run) ==
    \E i \in 1..Len(run.calls) : ~run.calls[i].ok /\ run.calls[i].op \notin Writes

\* A run starts: what cur and prev become.

StartRun(calls) ==
    /\ cur' = [ran |-> TRUE, again |-> cur.ran /\ cur.feed = raw_matches,
               after |-> IF ~cur.ran THEN "none"
                         ELSE IF Raised(cur) THEN "raised" ELSE "returned",
               ratings |-> elo_ratings, history |-> elo_match_history,
               feed |-> raw_matches, calls |-> calls]
    /\ prev' = IF PersistFailed(cur) THEN cur ELSE NoRun

\* No run made yet: every execution at its start.
RunsInit ==
    /\ pc = "idle"
    /\ tracker = NewTracker
    /\ last_date = None
    /\ new_matches = <<>>
    /\ ret = 0
    /\ records = <<>>
    /\ offset = 0
    /\ hist_ret = None
    /\ ratings_ret = None
    /\ report = ""
    /\ failures = [read |-> 0, write |-> 0]
    /\ cur = NoRun
    /\ prev = NoRun
    /\ reflected = {}
    /\ runs = [p \in Procs |-> IdleRun]
    /\ overlapped = FALSE

\* Empty tables, no run made yet.
StoreInit ==
    /\ raw_matches = {}
    /\ elo_ratings = <<>>
    /\ elo_match_history = <<>>
    /\ RunsInit

Init ==
    /\ StoreInit
    /\ engine = NewTracker
    /\ last = NoCall
    /\ ncalls = 0

\* The scraper between two runs: upload_raw_matches upserts a row of a match
\* the feed does not hold yet, of any day.
UploadRawMatches ==
    /\ pc = "idle"
    /\ Cardinality(raw_matches) < MaxFeed
    /\ \E d \in Dates, fx \in Fixtures :
         LET row == [league |-> LEAGUE, season |-> SEASON, date |-> d,
                     home_team |-> fx[1], away_team |-> fx[2],
                     fthg |-> fx[3], ftag |-> fx[4]]
         IN  /\ \A r \in raw_matches : MatchKey(r) # MatchKey(row)
             /\ raw_matches' = UpsertRaw(raw_matches, row)
    /\ UNCHANGED <<elo_ratings, elo_match_history, pc, locals, report,
                   failures, cur, prev, reflected>>
    /\ UNCHANGED others

\* run_incremental_elo up to its first write, all three reads succeeding.
RunFold ==
    /\ pc = "idle"
    /\ \E o \in Folds(elo_ratings, elo_match_history, raw_matches) :
         /\ tracker' = o.tracker
         /\ ret' = o.ret
         /\ last_date' = o.last_date
         /\ new_matches' = o.new_matches
         /\ records' = IF HasNewRecords(o.tracker)
                       THEN HistoryRecords(get_history_df(o.tracker)) ELSE <<>>
         /\ pc' = IF HasNewRecords(o.tracker) THEN "upload_history" ELSE "idle"
         /\ report' = IF HasNewRecords(o.tracker) THEN "" ELSE "up_to_date"
    /\ offset' = 0
    /\ hist_ret' = None
    /\ ratings_ret' = None
    /\ StartRun([i \in 1..3 |-> Call(Reads[i], TRUE)])
    /\ UNCHANGED <<tables, failures, reflected>>
    /\ UNCHANGED others

\* run_incremental_elo when one of its three reads raises: nothing catches
\* the exception, the run ends there.
RunReadFails ==
    /\ pc = "idle"
    /\ failures.read + failures.write < MaxFailures
    /\ \E n \in 1..3 : StartRun([i \in 1..n |-> Call(Reads[i], i < n)])
    /\ failures' = [failures EXCEPT !.read = @ + 1]
    /\ report' = "exception"
    /\ tracker' = NewTracker
    /\ last_date' = None
    /\ new_matches' = <<>>
    /\ ret' = 0
    /\ records' = <<>>
    /\ offset' = 0
    /\ hist_ret' = None
    /\ ratings_ret' = None
    /\ UNCHANGED <<tables, pc, reflected>>
    /\ UNCHANGED others

\* upload_elo_match_history: the upsert of one chunk succeeds.
UploadHistoryChunk ==
    /\ pc = "upload_history"
    /\ elo_match_history' = Upsert(elo_match_history, Chunk(records, offset))
    /\ offset' = offset + chunk_size
    /\ IF offset' >= Len(records)
       THEN hist_ret' = Some(TRUE) /\ pc' = "upload_ratings"
       ELSE hist_ret' = hist_ret /\ pc' = pc
    /\ cur' = [cur EXCEPT !.calls = Append(@, Call("upsert_elo_match_history", TRUE))]
    /\ UNCHANGED <<raw_matches, elo_ratings, tracker, last_date, new_matches, ret,
                   records, ratings_ret, report, failures, prev, reflected>>
    /\ UNCHANGED others

\* upload_elo_match_history: the upsert of a chunk raises; the function
\* prints the error and returns False, and the run goes on.
UploadHistoryFails ==
    /\ pc = "upload_history"
    /\ failures.read + failures.write < MaxFailures
    /\ failures' = [failures EXCEPT !.write = @ + 1]
    /\ hist_ret' = Some(FALSE)
    /\ pc' = "upload_ratings"
    /\ cur' = [cur EXCEPT !.calls = Append(@, Call("upsert_elo_match_history", FALSE))]
    /\ UNCHANGED <<tables, tracker, last_date, new_matches, ret,
                   records, offset, ratings_ret, report, prev, reflected>>
    /\ UNCHANGED others

\* upload_elo_ratings succeeds; the run prints its report and ends.
UploadRatings ==
    /\ pc = "upload_ratings"
    /\ elo_ratings' = UpsertRatings(elo_ratings,
                          RatingRecords(get_current_ratings_df(tracker)))
    /\ ratings_ret' = Some(TRUE)
    /\ report' = "uploaded"
    /\ pc' = "idle"
    /\ reflected' = reflected \cup
                      {strftime(tracker.history[i].Date) : i \in 1..Len(tracker.history)}
    /\ cur' = [cur EXCEPT !.calls = Append(@, Call("upsert_elo_ratings", TRUE))]
    /\ UNCHANGED <<raw_matches, elo_match_history, tracker, last_date, new_matches,
                   ret, records, offset, hist_ret, failures, prev>>
    /\ UNCHANGED others

\* upload_elo_ratings: the upsert raises; the function prints the error and
\* returns False; the run prints its report all the same and ends.
UploadRatingsFails ==
    /\ pc = "upload_ratings"
    /\ failures.read + failures.write < MaxFailures
    /\ failures' = [failures EXCEPT !.write = @ + 1]
    /\ ratings_ret' = Some(FALSE)
    /\ report' = "uploaded"
    /\ pc' = "idle"
    /\ cur' = [cur EXCEPT !.calls = Append(@, Call("upsert_elo_ratings", FALSE))]
    /\ UNCHANGED <<tables, tracker, last_date, new_matches, ret,
                   records, offset, hist_ret, prev, reflected>>
    /\ UNCHANGED others

Next ==
    \/ UploadRawMatches
    \/ RunFold
    \/ RunReadFails
    \/ UploadHistoryChunk
    \/ UploadHistoryFails
    \/ UploadRatings
    \/ UploadRatingsFails

Spec == Init /\ [][Next]_vars

\* The runs when every store and feed call succeeds, and keep happening.
NextOK ==
    \/ UploadRawMatches
    \/ RunFold
    \/ UploadHistoryChunk
    \/ UploadRatings

\* The steps of run_incremental_elo; at most one is enabled at a time.
RunStep == RunFold \/ UploadHistoryChunk \/ UploadRatings

FairSpec == Init /\ [][NextOK]_vars /\ WF_vars(RunStep)

(***************************************************************************)
(* Two concurrent executions of run_incremental_elo against one store,     *)
(* each made once, every call succeeding; the scraper may upload a row at  *)
(* any time.  Each store call is one step.                                 *)
(***************************************************************************)
\* An execution is between its first read and its end.
Running(p) == runs[p].pc \notin {"idle", "done"}

\* upload_raw_matches of one row, while the executions go on.
ConcUploadRawMatches ==
    /\ Cardinality(raw_matches) < MaxFeed
    /\ \E d \in Dates, fx \in Fixtures :
         LET row == [league |-> LEAGUE, season |-> SEASON, date |-> d,
                     home_team |-> fx[1], away_team |-> fx[2],
                     fthg |-> fx[3], ftag |-> fx[4]]
         IN  /\ \A r \in raw_matches : MatchKey(r) # MatchKey(row)
             /\ raw_matches' = UpsertRaw(raw_matches, row)
    /\ UNCHANGED <<elo_ratings, elo_match_history, seqvars, engvars, concvars>>

\* tracker = EloTracker.from_db()
ConcFromDb(p) ==
    /\ runs[p].pc = "idle"
    /\ runs' = [runs EXCEPT ![p].pc = "watermark",
                            ![p].tracker = from_db(elo_ratings)]
    /\ overlapped' = (overlapped \/ \E q \in Procs \ {p} : Running(q))
    /\ UNCHANGED <<tables, seqvars, engvars>>

\* last_date = get_last_processed_match_date()
ConcWatermark(p) ==
    /\ runs[p].pc = "watermark"
    /\ runs' = [runs EXCEPT ![p].pc = "fetch",
                            ![p].last_date =
                                get_last_processed_match_date(elo_match_history)]
    /\ UNCHANGED <<tables, seqvars, engvars, overlapped>>

\* new_matches = get_raw_matches(after_date=last_date), the fold, and the
\* guard of the persist step.
ConcFetchFold(p) ==
    /\ runs[p].pc = "fetch"
    /\ LET nm == get_raw_matches(raw_matches, runs[p].last_date)
       IN  \E o \in process_new_matches(runs[p].tracker, nm) :
             runs' = [runs EXCEPT
                        ![p].new_matches = nm,
                        ![p].feed = raw_matches,
                        ![p].tracker = o.tracker,
                        ![p].records = IF HasNewRecords(o.tracker)
                                       THEN HistoryRecords(get_history_df(o.tracker))
                                       ELSE <<>>,
                        ![p].pc = IF HasNewRecords(o.tracker)
                                  THEN "upload_history" ELSE "done"]
    /\ UNCHANGED <<tables, seqvars, engvars, overlapped>>

\* upload_elo_match_history: the upsert of one chunk.
ConcUploadHistoryChunk(p) ==
    /\ runs[p].pc = "upload_history"
    /\ elo_match_history' =
           Upsert(elo_match_history, Chunk(runs[p].records, runs[p].offset))
    /\ runs' = [runs EXCEPT
                  ![p].offset = @ + chunk_size,
                  ![p].pc = IF runs[p].offset + chunk_size >= Len(runs[p].records)
                            THEN "upload_ratings" ELSE "upload_history"]
    /\ UNCHANGED <<raw_matches, elo_ratings, seqvars, engvars, overlapped>>

\* upload_elo_ratings; the execution ends.
ConcUploadRatings(p) ==
    /\ runs[p].pc = "upload_ratings"
    /\ elo_ratings' = UpsertRatings(elo_ratings,
                          RatingRecords(get_current_ratings_df(runs[p].tracker)))
    /\ runs' = [runs EXCEPT ![p].pc = "done"]
    /\ UNCHANGED <<raw_matches, elo_match_history, seqvars, engvars, overlapped>>

ConcNext ==
    \/ ConcUploadRawMatches
    \/ \E p \in Procs : ConcFromDb(p)
    \/ \E p \in Procs : ConcWatermark(p)
    \/ \E p \in Procs : ConcFetchFold(p)
    \/ \E p \in Procs : ConcUploadHistoryChunk(p)
    \/ \E p \in Procs : ConcUploadRatings(p)

ConcSpec == Init /\ [][ConcNext]_vars

(***************************************************************************)
(* One EloTracker instance driven call by call: loaded from a ratings      *)
(* table or new, then process_match, the two batch methods, get_k_factor   *)
(* and _get_margin_multiplier applied to inputs drawn from small sets.     *)
(***************************************************************************)
\* (home_team, away_team) of the process_match calls.
Pairings == {<<"A", "B">>, <<"B", "A">>, <<"C", "A">>}
\* (fthg, ftag) of the process_match calls: a home win, an away win by
\* three, a draw.
Scores == {<<1, 0>>, <<0, 3>>, <<1, 1>>}

\* The ratings tables an instance is loaded from: A and B around the
\* volatile limit, A rated above B.
StoredTables ==
    {[t \in {"A", "B"} |->
        [team |-> t, league |-> Some(LEAGUE),
         elo_rating |-> IF t = "A" THEN (base + 100) * RatingScale
                        ELSE base * RatingScale,
         matches_played |-> c[t], last_match_date |-> None]] :
     c \in [{"A", "B"} -> {volatile_limit - 1, volatile_limit}]}

EngineStarts == {NewTracker} \cup {from_db(t) : t \in StoredTables}

\* The frames handed to the batch methods: up to MaxFeed rows of the feed,
\* in any order.
RECURSIVE Orderings(_)
Orderings(rows) ==
    IF rows = {} THEN {<<>>}
    ELSE UNION {{<<r>> \o s : s \in Orderings(rows \ {r})} : r \in rows}

FeedRows == {FeedRow(d, fx) : d \in Dates, fx \in Fixtures}

Frames ==
    UNION {Orderings(rows) :
             rows \in {x \in SUBSET FeedRows : x # {} /\ Cardinality(x) <= MaxFeed}}

\* A row of a season file, from a row of the feed.
SeasonRow(r) ==
    [Date |-> r.date, HomeTeam |-> r.home_team, AwayTeam |-> r.away_team,
     FTHG |-> r.fthg, FTAG |-> r.ftag]

\* A row under the display field names, from a row of the feed.
DisplayRow(r) ==
    [Date |-> r.date, HomeTeam |-> r.home_team, AwayTeam |-> r.away_team,
     FTHG |-> r.fthg, FTAG |-> r.ftag, Season |-> r.season, League |-> r.league]

\* The two naming conventions of the frames handed to process_new_matches.
Schemas == {"raw", "display"}

\* A frame of feed rows under a naming convention.
InSchema(df, schema) ==
    IF schema = "display" THEN [i \in 1..Len(df) |-> DisplayRow(df[i])] ELSE df

\* An instance as from_db returns it, from an empty ratings table or from one
\* of the stored tables.
EngineInit ==
    /\ raw_matches = {}
    /\ elo_match_history = <<>>
    /\ elo_ratings \in {<<>>} \cup StoredTables
    /\ RunsInit
    /\ engine = from_db(elo_ratings)
    /\ last = NoCall
    /\ ncalls = 0

\* process_match of the next match day.
EngProcessMatch ==
    /\ ncalls < MaxDate
    /\ \E pr \in Pairings, sc \in Scores :
         LET date == to_datetime(ncalls + 1)
         IN  /\ engine' = process_match(engine, pr[1], pr[2], sc[1], sc[2], date,
                                        SEASON, LEAGUE)
             /\ last' = [NoCall EXCEPT !.op = "process_match", !.before = engine,
                                       !.names = <<pr[1], pr[2], SEASON, LEAGUE>>,
                                       !.nums = <<sc[1], sc[2], date>>]
    /\ ncalls' = ncalls + 1
    /\ UNCHANGED <<tables, seqvars, concvars>>

\* process_new_matches of a frame under either naming convention, on an
\* instance no call was made on.
EngProcessNewMatches ==
    /\ last = NoCall
    /\ ncalls = 0
    /\ \E df \in Frames, schema \in Schemas :
         \E o \in process_new_matches(engine, InSchema(df, schema)) :
            /\ engine' = o.tracker
            /\ last' = [NoCall EXCEPT !.op = "process_new_matches",
                                      !.before = engine, !.df = df,
                                      !.names = <<schema>>,
                                      !.result = Some(o.ret)]
            /\ ncalls' = Len(df)
    /\ UNCHANGED <<tables, seqvars, concvars>>

\* process_league_season of a frame, on an instance no call was made on.
EngProcessLeagueSeason ==
    /\ last = NoCall
    /\ ncalls = 0
    /\ \E df \in Frames :
         LET season_df == [i \in 1..Len(df) |-> SeasonRow(df[i])]
         IN  \E t \in process_league_season(engine, season_df, SEASON, LEAGUE) :
                /\ engine' = t
                /\ last' = [NoCall EXCEPT !.op = "process_league_season",
                                          !.before = engine, !.df = df,
                                          !.names = <<SEASON, LEAGUE>>]
                /\ ncalls' = Len(df)
    /\ UNCHANGED <<tables, seqvars, concvars>>

\* get_k_factor(team)
EngGetKFactor ==
    /\ \E team \in Teams :
         last' = [NoCall EXCEPT !.op = "get_k_factor", !.before = engine,
                                !.names = <<team>>,
                                !.result = Some(get_k_factor(engine, team))]
    /\ UNCHANGED <<tables, seqvars, concvars, engine, ncalls>>

\* _get_margin_multiplier(goal_diff)
EngGetMarginMultiplier ==
    /\ \E goal_diff \in -1..MaxGoalDiff :
         last' = [NoCall EXCEPT !.op = "get_margin_multiplier", !.before = engine,
                                !.nums = <<goal_diff>>,
                                !.result = Some(get_margin_multiplier(goal_diff))]
    /\ UNCHANGED <<tables, seqvars, concvars, engine, ncalls>>

\* get_rating(team)
EngGetRating ==
    /\ \E team \in Teams :
         last' = [NoCall EXCEPT !.op = "get_rating", !.before = engine,
                                !.names = <<team>>,
                                !.result = Some(get_rating(engine, team))]
    /\ UNCHANGED <<tables, seqvars, concvars, engine, ncalls>>

\* get_history_df(): builds a frame from the accumulator; the call is
\* recorded with the frame's row count.
EngGetHistoryDf ==
    /\ last' = [NoCall EXCEPT !.op = "get_history_df", !.before = engine,
                              !.result = Some(Len(get_history_df(engine)))]
    /\ UNCHANGED <<tables, seqvars, concvars, engine, ncalls>>

\* get_current_ratings_df(): builds a frame from the dictionaries (and raises
\* on an engine without teams, where the frame has no Elo column to sort
\* by); the call is recorded with the frame's row count.
EngGetCurrentRatingsDf ==
    /\ last' = [NoCall EXCEPT !.op = "get_current_ratings_df", !.before = engine,
                              !.result = IF DOMAIN engine.ratings = {} THEN None
                                         ELSE Some(Cardinality(DOMAIN get_current_ratings_df(engine)))]
    /\ UNCHANGED <<tables, seqvars, concvars, engine, ncalls>>

EngineNext ==
    \/ EngProcessMatch
    \/ EngProcessNewMatches
    \/ EngProcessLeagueSeason
    \/ EngGetKFactor
    \/ EngGetMarginMultiplier
    \/ EngGetRating
    \/ EngGetHistoryDf
    \/ EngGetCurrentRatingsDf

EngineSpec == EngineInit /\ [][EngineNext]_vars

(***************************************************************************)
(* Properties.                                                             *)
(***************************************************************************)
\* The store as one value.
Store == [ratings |-> elo_ratings, history |-> elo_match_history]

\* The latest run made its three reads and all succeeded.
ReadsDone == cur.ran /\ Len(cur.calls) >= 3 /\ cur.calls[3].ok

\* The rows of the ledger a team takes part in.
LedgerRows(t) ==
    {i \in 1..Len(elo_match_history) :
        t \in {elo_match_history[i].home_team, elo_match_history[i].away_team}}

\* C1: no match is folded into the stored ratings more than once: for every
\* team the stored matches_played never exceeds the number of feed matches
\* that involve the team, whatever calls failed.
C1_FoldedAtMostOnce ==
    \A t \in DOMAIN elo_ratings :
        elo_ratings[t].matches_played
            <= Cardinality({r \in raw_matches : t \in {r.home_team, r.away_team}})

\* A row of the feed has its record in the ledger.
InLedger(r) ==
    \E i \in 1..Len(elo_match_history) : MatchKey(elo_match_history[i]) = MatchKey(r)

\* C2: when runs keep happening and every call succeeds, each match that is
\* in the feed eventually has a record in the ledger, whatever its date.
C2_EveryMatchFolded ==
    \A d \in Dates, fx \in Fixtures :
        (FeedRow(d, fx) \in raw_matches) ~> InLedger(FeedRow(d, fx))

\* C3: a run in which a call failed leaves the ratings table and the ledger
\* as they were before it.
C3_FailedRunWritesNothing ==
    (pc = "idle" /\ cur.ran /\ Failed(cur))
        => (elo_ratings = cur.ratings /\ elo_match_history = cur.history)

\* C4: after a run in which a write failed, a run over the same feed whose
\* calls all succeed leaves the store as one failure-free run from the state
\* before the failed run would have.
C4_RetryIsSafe ==
    (pc = "idle" /\ prev.ran /\ PersistFailed(prev) /\ cur.again /\ ~Failed(cur))
        => Store \in RunOutcomes(prev.ratings, prev.history, prev.feed)

\* C5: of two runs in a row that both return, with no match added to the
\* feed between them, the second leaves the ratings table and the ledger
\* unchanged.
C5_SecondRunChangesNothing ==
    (pc = "idle" /\ cur.again /\ cur.after = "returned" /\ ~Raised(cur))
        => (elo_ratings = cur.ratings /\ elo_match_history = cur.history)

\* C6: when the fetch returns no matches, process_new_matches returns 0 and
\* leaves the engine as loaded, and the run ends without an error, reports
\* that the ratings are up to date and makes no write.
C6_NoMatchesNoWrite ==
    (ReadsDone /\ new_matches = <<>>)
        => /\ ret = 0
           /\ tracker = from_db(cur.ratings)
           /\ pc = "idle"
           /\ report = "up_to_date"
           /\ Len(cur.calls) = 3
           /\ elo_ratings = cur.ratings
           /\ elo_match_history = cur.history

C6_Witness ==
    /\ ReadsDone
    /\ new_matches = <<>>
    /\ last_date # None
    /\ \E r \in raw_matches : ~InLedger(r)
    /\ DOMAIN tracker.ratings # {}

\* The latest of a set of ledger rows: the last one of the greatest date.
LatestRow(rows) ==
    CHOOSE i \in rows :
        \A j \in rows :
            \/ elo_match_history[j].date < elo_match_history[i].date
            \/ (elo_match_history[j].date = elo_match_history[i].date /\ j <= i)

\* The rating a ledger row gives a team after the match.
AfterOf(rec, t) == IF rec.home_team = t THEN rec.home_elo_after ELSE rec.away_elo_after
BeforeOf(rec, t) == IF rec.home_team = t THEN rec.home_elo_before ELSE rec.away_elo_before

\* C7: after every run that ends, the ratings table agrees with the ledger:
\* matches_played is the number of the team's ledger records and the rating
\* is the after-rating of the team's latest record.
C7_RatingsAgreeWithLedger ==
    (pc = "idle" /\ cur.ran)
        => \A t \in Teams :
              /\ (IF t \in DOMAIN elo_ratings THEN elo_ratings[t].matches_played ELSE 0)
                    = Cardinality(LedgerRows(t))
              /\ LedgerRows(t) # {}
                    => /\ t \in DOMAIN elo_ratings
                       /\ elo_ratings[t].elo_rating
                            = AfterOf(elo_match_history[LatestRow(LedgerRows(t))], t)

\* The teams of a record of the engine's history.
Sides(h) == {h.HomeTeam, h.AwayTeam}

\* The engine's history is continuous from the ratings the run loaded.
TrackerContinuous ==
    \A i \in 1..Len(tracker.history) :
        \A t \in Sides(tracker.history[i]) :
            LET h == tracker.history[i]
                earlier == {j \in 1..(i - 1) : t \in Sides(tracker.history[j])}
                before == IF h.HomeTeam = t THEN h.HomeRating_Before
                          ELSE h.AwayRating_Before
            IN  IF earlier # {}
                THEN LET g == tracker.history[CHOOSE j \in earlier :
                                                 \A k \in earlier : k <= j]
                     IN  before = (IF g.HomeTeam = t THEN g.HomeRating_After
                                   ELSE g.AwayRating_After)
                ELSE before = (IF t \in DOMAIN cur.ratings
                               THEN cur.ratings[t].elo_rating
                               ELSE base * RatingScale)

\* The ledger is continuous in the order its records were written.
LedgerContinuous ==
    \A i \in 1..Len(elo_match_history) :
        \A t \in {elo_match_history[i].home_team, elo_match_history[i].away_team} :
            LET earlier == {j \in LedgerRows(t) : j < i}
            IN  BeforeOf(elo_match_history[i], t)
                  = (IF earlier # {}
                     THEN AfterOf(elo_match_history[CHOOSE j \in earlier :
                                                      \A k \in earlier : k <= j], t)
                     ELSE base * RatingScale)

\* C8: the recorded rating trajectory is continuous: within a run each
\* before-rating is the after-rating of the team's preceding record, or the
\* loaded rating, or base_rating; across runs that persisted, the same holds
\* of the ledger.
C8_TrajectoryContinuous ==
    /\ TrackerContinuous
    /\ failures.write = 0 => LedgerContinuous

C8_Witness ==
    /\ pc = "idle"
    /\ failures.write = 0
    /\ Len(cur.history) >= 1
    /\ Len(tracker.history) >= 2
    /\ Len(elo_match_history) = Len(cur.history) + Len(tracker.history)

\* C9: matches are folded in non-decreasing date order within a batch, and no
\* run folds a match dated earlier than one the stored ratings reflect.
C9_FoldedInDateOrder ==
    pc \in {"upload_history", "upload_ratings"}
        => /\ \A i \in 1..Len(tracker.history), j \in 1..Len(tracker.history) :
                i < j => tracker.history[i].Date <= tracker.history[j].Date
           /\ \A i \in 1..Len(tracker.history), d \in reflected :
                strftime(tracker.history[i].Date) >= d

\* C10: the watermark is the greatest date of the ledger, absent when the
\* ledger is empty; the fetch returns the feed's rows dated strictly after
\* the watermark, once each, and all rows when there is no watermark.
C10_WatermarkAndFetch ==
    LET wm == get_last_processed_match_date(elo_match_history)
        dates == {elo_match_history[i].date : i \in 1..Len(elo_match_history)}
        got == get_raw_matches(raw_matches, wm)
        Rows(df) == {df[i] : i \in 1..Len(df)}
    IN  /\ (Len(elo_match_history) = 0) = (wm = None)
        /\ wm # None => wm[1] \in dates /\ \A e \in dates : e <= wm[1]
        /\ Rows(got) = IF wm = None THEN raw_matches
                       ELSE {r \in raw_matches : r.date > wm[1]}
        /\ Len(got) = Cardinality(Rows(got))
        /\ pc = "upload_history"
             => /\ last_date = get_last_processed_match_date(cur.history)
                /\ Rows(new_matches)
                     = IF last_date = None THEN cur.feed
                       ELSE {r \in cur.feed : r.date > last_date[1]}

C10_Witness ==
    /\ pc = "upload_history"
    /\ last_date # None
    /\ \E r \in raw_matches : r.date = last_date[1] /\ ~InLedger(r)
    /\ Len(new_matches) >= 1

\* The rating fields of a ledger record.
RatingFields(rec) ==
    <<rec.home_elo_before, rec.away_elo_before, rec.home_elo_after,
      rec.away_elo_after, rec.elo_change_home, rec.elo_change_away>>

\* C11: a record of the ledger stays in the ledger and its before and after
\* ratings and rating changes never change, whatever run follows, including
\* runs that follow a failed write.
C11_LedgerRecordsImmutable ==
    [][\A i \in 1..Len(elo_match_history) :
         \E j \in 1..Len(elo_match_history') :
            /\ MatchKey(elo_match_history'[j]) = MatchKey(elo_match_history[i])
            /\ RatingFields(elo_match_history'[j]) = RatingFields(elo_match_history[i])]_vars

\* A run that follows a failed write added records to a ledger that held some.
C11_Witness ==
    /\ pc = "idle"
    /\ prev.ran /\ PersistFailed(prev)
    /\ Len(cur.history) >= 1
    /\ Len(elo_match_history) > Len(cur.history)

\* C12: a run in which a write failed does not end with the success report
\* nor with the report of a run with no new matches: it ends in a way the
\* caller can tell from both (an exception).
C12_FailedRunReported ==
    (pc = "idle" /\ cur.ran /\ PersistFailed(cur))
        => report \notin {"uploaded", "up_to_date"}

\* The stored ratings reflect every match the ledger records: for every
\* team, matches_played is the number of the team's ledger records.
ReflectsLedger ==
    \A t \in Teams :
        (IF t \in DOMAIN elo_ratings THEN elo_ratings[t].matches_played ELSE 0)
            = Cardinality(LedgerRows(t))

\* Both concurrent executions ended.
BothDone == \A p \in Procs : runs[p].pc = "done"

\* C13: two executions of run_incremental_elo that do not overlap always end
\* with stored ratings that reflect every match of the ledger; C13_Witness is
\* the state two overlapping executions reach, which no two executions one
\* after the other reach.
C13_SequentialRunsReflectLedger ==
    (BothDone /\ ~overlapped) => ReflectsLedger

\* Two overlapping executions, a match entering the feed between their
\* fetches, ended with stored ratings that miss a match of the ledger.
C13_Witness ==
    /\ BothDone
    /\ overlapped
    /\ runs[1].feed # runs[2].feed
    /\ ~ReflectsLedger

\* The trackers a batch method may leave, given the instance and the frame.
BatchOutcomes(op, tr, df) ==
    IF op = "process_new_matches"
    THEN {o.tracker : o \in process_new_matches(tr, df)}
    ELSE process_league_season(tr, [i \in 1..Len(df) |-> SeasonRow(df[i])],
                               SEASON, LEAGUE)

\* C14: a batch method leaves the same ratings and match counts whatever the
\* order of the rows of its frame: every ordering of the rows the last batch
\* call was given, folded from the same instance, ends with the ratings and
\* match counts the call left.
C14_FoldIndependentOfInputOrder ==
    last.op \in {"process_new_matches", "process_league_season"}
        => \A df \in Orderings({last.df[i] : i \in 1..Len(last.df)}) :
              \A t \in BatchOutcomes(last.op, last.before, df) :
                  /\ t.ratings = engine.ratings
                  /\ t.match_counts = engine.match_counts

\* C15: when every write succeeded and every match of the feed is in the
\* ledger, whatever the number of runs that folded them batch by batch, the
\* stored ratings, matches_played and ledger are what one run over the whole
\* feed from the empty store leaves.
C15_BatchesEqualFullReplay ==
    (/\ pc = "idle"
     /\ failures.write = 0
     /\ elo_match_history # <<>>
     /\ \A r \in raw_matches : InLedger(r))
        => Store \in RunOutcomes(<<>>, <<>>, raw_matches)

\* The match count an instance holds for a team, 0 when it holds none.
CountOf(tr, team) == DictGet(tr.match_counts, team, 0)

\* C16: get_k_factor returns k_factor_volatile when the team's stored match
\* count (0 when there is none) is below volatile_match_count and
\* k_factor_stable otherwise, so k_factor_stable at exactly
\* volatile_match_count.
C16_KFactorByMatchCount ==
    last.op = "get_k_factor"
        => LET count == CountOf(last.before, last.names[1])
           IN  /\ count < volatile_limit => last.result = Some(k_volatile)
               /\ count >= volatile_limit => last.result = Some(k_stable)
               /\ count = volatile_limit => last.result # Some(k_volatile)

\* get_k_factor was asked about a team that reached exactly
\* volatile_match_count matches through a process_match call.
C16_Witness ==
    /\ last.op = "get_k_factor"
    /\ ncalls >= 1
    /\ last.names[1] \in DOMAIN engine.match_counts
    /\ engine.match_counts[last.names[1]] = volatile_limit
    /\ last.result = Some(k_stable)

\* The winner and the loser of the last process_match call.
Winner == IF last.nums[1] > last.nums[2] THEN last.names[1] ELSE last.names[2]
Loser == IF last.nums[1] > last.nums[2] THEN last.names[2] ELSE last.names[1]

\* C17: after a process_match call with a strict winner the winner's rating
\* is strictly greater than before the call and the loser's strictly less,
\* for home wins and away wins alike.
C17_WinnerGainsLoserLoses ==
    (last.op = "process_match" /\ last.nums[1] # last.nums[2])
        => /\ get_rating(engine, Winner) > get_rating(last.before, Winner)
           /\ get_rating(engine, Loser) < get_rating(last.before, Loser)

\* An away win over a higher-rated home team, the two teams on different
\* K-factors.
C17_Witness ==
    /\ last.op = "process_match"
    /\ last.nums[1] < last.nums[2]
    /\ get_rating(last.before, Loser) > get_rating(last.before, Winner)
    /\ get_k_factor(last.before, Winner) # get_k_factor(last.before, Loser)
    /\ get_rating(engine, Winner) > get_rating(last.before, Winner)

\* C18: the margin multiplier (in eighths) is 1 for goal_diff <= 0, 1.0 for
\* 1, 1.5 for 2 and (11 + goal_diff) / 8 from 3 on, so 2.0 at 5, and it is
\* strictly increasing from goal_diff 1 on.
C18_MarginMultiplier ==
    last.op = "get_margin_multiplier"
        => LET goal_diff == last.nums[1]
               m == last.result[1]
           IN  /\ goal_diff <= 0 => m = 8
               /\ goal_diff = 1 => m = 8
               /\ goal_diff = 2 => m = 12
               /\ goal_diff >= 3 => m = 11 + goal_diff
               /\ goal_diff = 5 => m = 2 * 8
               /\ goal_diff >= 1 => get_margin_multiplier(goal_diff + 1) > m

C18_Witness ==
    /\ last.op = "get_margin_multiplier"
    /\ last.nums[1] = 5
    /\ last.result = Some(16)

\* C19: a process_match call adds exactly 1 to the match count of the home
\* team and of the away team and leaves every other team's count as it was.
C19_MatchCountsIncrement ==
    last.op = "process_match"
        => /\ CountOf(engine, last.names[1]) = CountOf(last.before, last.names[1]) + 1
           /\ CountOf(engine, last.names[2]) = CountOf(last.before, last.names[2]) + 1
           /\ \A t \in Teams \ {last.names[1], last.names[2]} :
                /\ CountOf(engine, t) = CountOf(last.before, t)
                /\ (t \in DOMAIN engine.match_counts)
                      = (t \in DOMAIN last.before.match_counts)

\* A call between a team with no stored count and a team with one, while a
\* third team holds a count.
C19_Witness ==
    /\ last.op = "process_match"
    /\ last.names[1] \notin DOMAIN last.before.match_counts
    /\ last.names[2] \in DOMAIN last.before.match_counts
    /\ \E t \in DOMAIN last.before.match_counts : t \notin {last.names[1], last.names[2]}
    /\ engine.match_counts[last.names[1]] = 1

\* C20: the history holds one record per process_match call, and a call
\* leaves the records before it as they were and adds its own at the end.
C20_HistoryAccumulates ==
    /\ Len(engine.history) = ncalls
    /\ last.op = "process_match"
        => /\ SubSeq(engine.history, 1, ncalls - 1) = last.before.history
           /\ LET rec == engine.history[ncalls]
              IN  /\ <<rec.HomeTeam, rec.AwayTeam, rec.Season, rec.League>> = last.names
                  /\ <<rec.FTHG, rec.FTAG, rec.Date>> = last.nums
    /\ last.op \in {"process_new_matches", "process_league_season"}
        => SubSeq(engine.history, 1, Len(last.before.history)) = last.before.history
    /\ get_history_df(engine) = engine.history

C20_Witness ==
    /\ last.op = "process_match"
    /\ ncalls >= 2
    /\ Len(last.before.history) = ncalls - 1
    /\ engine.history[ncalls].Date = to_datetime(ncalls)

\* The engines process_new_matches may leave, given the instance and the
\* frame under a naming convention.
FoldsOf(tr, df, schema) ==
    {o.tracker : o \in process_new_matches(tr, InSchema(df, schema))}

\* C21: process_new_matches leaves the same ratings, match counts and history
\* for a frame under the raw field names as for the same frame under the
\* display field names, and the history records carry the rows' teams and
\* goal counts, a goal count of 0 as 0.
C21_SchemaTolerant ==
    last.op = "process_new_matches"
        => /\ FoldsOf(last.before, last.df, "raw")
                = FoldsOf(last.before, last.df, "display")
           /\ engine \in FoldsOf(last.before, last.df, "raw")
           /\ {<<h.HomeTeam, h.AwayTeam, h.FTHG, h.FTAG, strftime(h.Date)>> :
                  h \in {engine.history[i] : i \in 1..Len(engine.history)}}
                = {<<r.home_team, r.away_team, r.fthg, r.ftag, r.date>> :
                      r \in {last.df[i] : i \in 1..Len(last.df)}}

\* A frame under the display names with two rows, one with no home goal.
C21_Witness ==
    /\ last.op = "process_new_matches"
    /\ last.names = <<"display">>
    /\ Len(last.df) >= 2
    /\ \E i \in 1..Len(engine.history) : engine.history[i].FTHG = 0
    /\ last.result = Some(Len(last.df))

\* C22: the engine from_db yields holds, for every team, the rating and the
\* match count of the team's row of the store and nothing else, with an
\* empty history; from an empty store it holds no team and every team reads
\* as base_rating.  (Read off the run that fetched no match: its tracker is
\* the engine as loaded.)
C22_FromDbMirrorsStore ==
    (ReadsDone /\ new_matches = <<>>)
        => /\ DOMAIN tracker.ratings = DOMAIN cur.ratings
           /\ DOMAIN tracker.match_counts = DOMAIN cur.ratings
           /\ \A t \in DOMAIN cur.ratings :
                /\ tracker.ratings[t] = cur.ratings[t].elo_rating
                /\ tracker.match_counts[t] = cur.ratings[t].matches_played
           /\ tracker.history = <<>>
           /\ cur.ratings = <<>>
                => /\ tracker = NewTracker
                   /\ \A t \in Teams : get_rating(tracker, t) = base * RatingScale

\* A run loaded a store of three teams and fetched nothing.
C22_Witness ==
    /\ ReadsDone
    /\ new_matches = <<>>
    /\ pc = "idle"
    /\ DOMAIN cur.ratings = Teams
    /\ \E t \in Teams : tracker.match_counts[t] >= 2

FoldedAt(hist, r) ==
    CHOOSE k \in 1..Len(hist) :
        /\ hist[k].HomeTeam = r.home_team
        /\ hist[k].AwayTeam = r.away_team
        /\ strftime(hist[k].Date) = r.date

\* C24: within a batch, matches of the same date are folded in the order
\* the feed delivered them: of any two rows of the frame with equal dates,
\* process_new_matches hands the earlier row to process_match first.
C24_SameDateInFeedOrder ==
    last.op = "process_new_matches"
        => \A i, j \in 1..Len(last.df) :
              (i < j /\ last.df[i].date = last.df[j].date)
                  => FoldedAt(engine.history, last.df[i])
                       < FoldedAt(engine.history, last.df[j])

\* The change process_match made to a team's rating.
DeltaOf(team) == engine.ratings[team] - get_rating(last.before, team)

\* The home team's surprise in the last process_match call, (actual -
\* expected) * g_mult, from the ratings the engine held before the call.
SurpriseOf(home, away, fthg, ftag) ==
    LET actual_home == IF fthg > ftag THEN PScale
                       ELSE IF fthg = ftag THEN PScale \div 2 ELSE 0
        goal_diff == IF fthg > ftag THEN fthg - ftag ELSE ftag - fthg
    IN  get_margin_multiplier(goal_diff)
          * (actual_home
               - expected_score(get_rating(last.before, home) + home_adv * RatingScale,
                                get_rating(last.before, away)))

\* C25: process_match computes both changes from the ratings and K-factors
\* the engine held before the call, each side with its own K-factor; when
\* the two K-factors are equal the changes are opposite and the sum of the
\* two ratings is what it was.
C25_DeltasFromStateBefore ==
    last.op = "process_match"
        => LET home == last.names[1]
               away == last.names[2]
               k_home == get_k_factor(last.before, home)
               k_away == get_k_factor(last.before, away)
               s == SurpriseOf(home, away, last.nums[1], last.nums[2])
           IN  /\ DeltaOf(home) = k_home * s
               /\ DeltaOf(away) = -(k_away * s)
               /\ k_home = k_away
                    => /\ DeltaOf(away) = -DeltaOf(home)
                       /\ engine.ratings[home] + engine.ratings[away]
                            = get_rating(last.before, home)
                                + get_rating(last.before, away)

\* A match between two teams of equal K-factor moved their ratings.
C25_Witness ==
    /\ last.op = "process_match"
    /\ get_k_factor(last.before, last.names[1]) = get_k_factor(last.before, last.names[2])
    /\ last.names[1] \in DOMAIN last.before.ratings
    /\ DeltaOf(last.names[1]) # 0

\* The calls that only read the engine.
Queries == {"get_rating", "get_k_factor", "get_history_df", "get_current_ratings_df"}

WatermarkOf(history) ==
    LET w == get_last_processed_match_date(history)
    IN  IF w = None THEN 0 ELSE w[1]

\* The run persisted at least one history record: an upsert of a chunk of
\* upload_elo_match_history succeeded.
PersistedHistory(run) ==
    \E i \in 1..Len(run.calls) :
        run.calls[i].op = "upsert_elo_match_history" /\ run.calls[i].ok

\* C27: the watermark never decreases: whatever a run did, failed or not,
\* the latest date of the ledger is at least what it was when the run
\* started, and it is later exactly when the run persisted at least one
\* history record.
C27_WatermarkMonotone ==
    cur.ran
        => /\ WatermarkOf(elo_match_history) >= WatermarkOf(cur.history)
           /\ WatermarkOf(elo_match_history) > WatermarkOf(cur.history)
                <=> PersistedHistory(cur)

\* A run that started from a ledger with records persisted a first chunk
\* and then failed.
C27_Witness ==
    /\ cur.ran
    /\ pc = "idle"
    /\ cur.history # <<>>
    /\ PersistedHistory(cur)
    /\ PersistFailed(cur)
    /\ WatermarkOf(elo_match_history) > WatermarkOf(cur.history)

\* The instance the next run works on when this one's run ends well:
\* upload_elo_ratings(get_current_ratings_df()) into the table, then from_db.
PersistAndReload(tr, table) ==
    from_db(UpsertRatings(table, RatingRecords(get_current_ratings_df(tr))))

\* C28: a team's matches_played never decreases, neither from call to call
\* in an engine instance, nor in the ratings table when the instance is
\* persisted, nor in the instance loaded from what was persisted; and a team
\* get_k_factor gives k_factor_stable to is not given k_factor_volatile
\* afterwards, by the instance or by the one reloaded.
C28_MatchesPlayedMonotone ==
    /\ [](HasNewRecords(engine)
            => LET df == get_current_ratings_df(engine)
                   stored == UpsertRatings(elo_ratings, RatingRecords(df))
                   next == PersistAndReload(engine, elo_ratings)
               IN  /\ \A t \in DOMAIN elo_ratings :
                        stored[t].matches_played >= elo_ratings[t].matches_played
                   /\ \A t \in DOMAIN engine.match_counts :
                        /\ t \in DOMAIN next.match_counts
                        /\ next.match_counts[t] >= engine.match_counts[t]
                   /\ \A t \in Teams :
                        get_k_factor(engine, t) = k_stable
                            => get_k_factor(next, t) = k_stable)
    /\ [][/\ \A t \in DOMAIN engine.match_counts :
              /\ t \in DOMAIN engine'.match_counts
              /\ engine'.match_counts[t] >= engine.match_counts[t]
         /\ \A t \in Teams :
              get_k_factor(engine, t) = k_stable
                  => get_k_factor(engine', t) = k_stable]_vars

\* A team loaded one match short of the limit has played its match: the
\* instance gives it the stable K-factor, and so does the instance reloaded
\* from what this one persists.
C28_Witness ==
    /\ HasNewRecords(engine)
    /\ \E t \in DOMAIN elo_ratings :
          /\ elo_ratings[t].matches_played = volatile_limit - 1
          /\ engine.match_counts[t] = volatile_limit
          /\ get_k_factor(engine, t) = k_stable
          /\ get_k_factor(PersistAndReload(engine, elo_ratings), t) = k_stable

\* The teams of the rows of a frame of the feed.
TeamsOf(df) == UNION {{df[i].home_team, df[i].away_team} : i \in 1..Len(df)}

\* C29: the run of an instance that folded new matches upserts a ratings row
\* for every team it was loaded with, and the row of a team that plays in
\* none of the new matches carries the rating and matches_played the table
\* held; and a process_match call leaves the rating, the match count and the
\* league of every team other than its two as they were.
C29_OtherTeamsUntouched ==
    /\ last.op = "process_new_matches"
         => LET recs == RatingRecords(get_current_ratings_df(engine))
                stored == UpsertRatings(elo_ratings, recs)
            IN  /\ DOMAIN elo_ratings \subseteq DOMAIN recs
                /\ \A t \in DOMAIN elo_ratings \ TeamsOf(last.df) :
                     /\ recs[t].elo_rating = elo_ratings[t].elo_rating
                     /\ recs[t].matches_played = elo_ratings[t].matches_played
                     /\ stored[t].elo_rating = elo_ratings[t].elo_rating
                     /\ stored[t].matches_played = elo_ratings[t].matches_played
    /\ last.op = "process_match"
         => \A t \in Teams \ {last.names[1], last.names[2]} :
              /\ RowGet(engine.ratings, t) = RowGet(last.before.ratings, t)
              /\ RowGet(engine.match_counts, t) = RowGet(last.before.match_counts, t)
              /\ RowGet(engine.team_leagues, t) = RowGet(last.before.team_leagues, t)

\* An instance loaded with A and B folded a batch B plays no match of.
C29_Witness ==
    /\ last.op = "process_new_matches"
    /\ DOMAIN elo_ratings = {"A", "B"}
    /\ "B" \notin TeamsOf(last.df)
    /\ "A" \in TeamsOf(last.df)
    /\ engine.match_counts["A"] > elo_ratings["A"].matches_played
    /\ "B" \in DOMAIN RatingRecords(get_current_ratings_df(engine))

\* The matches that share no team with a match between home and away: the
\* pairs of other teams, a team no other call names among them, with every
\* score and in either of two leagues.
OtherMatches(home, away) ==
    LET free == (Teams \cup {"D"}) \ {home, away}
    IN  {<<pr[1], pr[2], sc[1], sc[2], lg>> :
            pr \in {p \in free \X free : p[1] # p[2]},
            sc \in Scores, lg \in {LEAGUE, "premier_league"}}

\* C30: two process_match calls on disjoint pairs of teams commute: from the
\* state the last call started from, that call followed by any same-date
\* match of two other teams leaves the ratings, match counts and league tags
\* that the two calls leave in the other order, and the same history but for
\* the order of its last two records.
C30_DisjointMatchesCommute ==
    last.op = "process_match"
        => \A m \in OtherMatches(last.names[1], last.names[2]) :
              LET date == last.nums[3]
                  one == process_match(engine, m[1], m[2], m[3], m[4], date,
                                       SEASON, m[5])
                  other == process_match(
                               process_match(last.before, m[1], m[2], m[3], m[4],
                                             date, SEASON, m[5]),
                               last.names[1], last.names[2], last.nums[1],
                               last.nums[2], date, last.names[3], last.names[4])
                  n == Len(one.history)
              IN  /\ one.ratings = other.ratings
                  /\ one.match_counts = other.match_counts
                  /\ one.team_leagues = other.team_leagues
                  /\ Len(other.history) = n
                  /\ SubSeq(one.history, 1, n - 2) = SubSeq(other.history, 1, n - 2)
                  /\ one.history[n - 1] = other.history[n]
                  /\ one.history[n] = other.history[n - 1]

\* A call between A and B on an instance that rates C: a match of C and a
\* newcomer moves C's rating whichever of the two comes first.
C30_Witness ==
    /\ last.op = "process_match"
    /\ {last.names[1], last.names[2]} = {"A", "B"}
    /\ "C" \in DOMAIN last.before.ratings
    /\ engine.ratings["A"] # last.before.ratings["A"]
    /\ \E m \in OtherMatches(last.names[1], last.names[2]) :
          /\ m[1] = "C"
          /\ m[2] = "D"
          /\ process_match(engine, m[1], m[2], m[3], m[4], last.nums[3],
                           SEASON, m[5]).ratings["C"] # engine.ratings["C"]

=============================================================================
